---- MODULE Spec2Model ----
(***************************************************************************)
(* The sandboxed path-access gateway of mcp-builds-mono:                   *)
(*   examples/python-server.py            (the example server)             *)
(*   extensions/fs-sandbox-python/server  (helpers.py, main.py)            *)
(*                                                                         *)
(* Strings are sequences of tokens.  A token is a separator ("/", ",",     *)
(* "~", ".", " ") or an atomic fragment of a name ("home", "Desktop",      *)
(* "-evil").  No token is a prefix of another one, so equality and the     *)
(* prefix relation on token sequences are those of the strings they spell. *)
(***************************************************************************)
EXTENDS Integers, Sequences, FiniteSets, TLC

VARIABLES
  env,                \* the process environment the configuration is read from
  fs,                 \* regular files and directories, keyed by real path
  now,                \* time.time()
  rate_limit_window,  \* state.rate_limit_window
  request_count,      \* state.request_count
  admitted,           \* history: every timestamp check_rate_limit admitted, per client
  last                \* observation of the last operation: its input and what it did

vars == <<env, fs, now, rate_limit_window, request_count, admitted, last>>

------------------------------------------------------------------------------
(* str *)

\* str.startswith
StartsWith(s, p) == Len(p) <= Len(s) /\ SubSeq(s, 1, Len(p)) = p

RECURSIVE Split(_, _)
\* str.split(sep)
Split(s, sep) ==
  IF \A i \in 1..Len(s) : s[i] # sep
  THEN <<s>>
  ELSE LET i == CHOOSE k \in 1..Len(s) :
                  s[k] = sep /\ \A j \in 1..(k - 1) : s[j] # sep
       IN  <<SubSeq(s, 1, i - 1)>> \o Split(SubSeq(s, i + 1, Len(s)), sep)

RECURSIVE Strip(_)
\* str.strip()
Strip(s) ==
  IF s # <<>> /\ s[1] = " " THEN Strip(Tail(s))
  ELSE IF s # <<>> /\ s[Len(s)] = " " THEN Strip(SubSeq(s, 1, Len(s) - 1))
  ELSE s

RECURSIVE Join(_, _)
\* sep.join(parts)
Join(parts, sep) ==
  IF parts = <<>> THEN <<>>
  ELSE IF Len(parts) = 1 THEN parts[1]
  ELSE parts[1] \o <<sep>> \o Join(Tail(parts), sep)

IsPrefix(a, b) == Len(a) <= Len(b) /\ SubSeq(b, 1, Len(a)) = a

------------------------------------------------------------------------------
(* pathlib: a path is [abs, comps], comps the sequence of its components. *)

DotDot == <<".", ".">>

\* pathlib.PurePosixPath(s): empty and "." components are dropped, ".." is kept
PurePath(s) ==
  [abs   |-> s # <<>> /\ s[1] = "/",
   comps |-> SelectSeq(Split(s, "/"), LAMBDA c : c # <<>> /\ c # <<".">>)]

\* str(path)
Str(p) ==
  IF p.abs THEN <<"/">> \o Join(p.comps, "/")
  ELSE IF p.comps = <<>> THEN <<".">>
  ELSE Join(p.comps, "/")

\* path / other
JoinPath(a, b) ==
  IF b.abs THEN b ELSE [abs |-> a.abs, comps |-> a.comps \o b.comps]

\* Path.home()
Home == [abs |-> TRUE, comps |-> << <<"home">> >>]

\* os.getcwd(): the directory the server process was started in
Cwd == << <<"home">> >>

\* The symbolic links of the filesystem: real path of the link -> its target.
\* The servers never create or change a link.
Symlinks ==
  << <<"home">>, <<"Desktop">>, <<"link">> >> :>
     [abs |-> TRUE, comps |-> << <<"home">>, <<"secret">> >>]

RECURSIVE Walk(_, _)
\* os.path.realpath (non-strict): cur is the real path so far, rest what is
\* still to be walked.  ".." pops the real path, a link is replaced by its
\* target, a component that does not exist is kept as it is.
Walk(cur, rest) ==
  IF rest = <<>> THEN cur
  ELSE LET name == Head(rest) IN
    IF name = DotDot
    THEN Walk(IF cur = <<>> THEN <<>> ELSE SubSeq(cur, 1, Len(cur) - 1), Tail(rest))
    ELSE LET new == Append(cur, name) IN
      IF new \in DOMAIN Symlinks
      THEN Walk(IF Symlinks[new].abs THEN <<>> ELSE cur,
                Symlinks[new].comps \o Tail(rest))
      ELSE Walk(new, Tail(rest))

\* Path.resolve()
Path_resolve(p) ==
  [abs |-> TRUE, comps |-> Walk(<<>>, IF p.abs THEN p.comps ELSE Cwd \o p.comps)]

\* Path.expanduser(): a leading "~" component is the home directory
expanduser(p) ==
  IF ~p.abs /\ p.comps # <<>> /\ p.comps[1] = <<"~">>
  THEN [abs |-> TRUE, comps |-> Home.comps \o Tail(p.comps)]
  ELSE p

\* PurePath.relative_to(base) does not raise ValueError
relative_to(p, base) == p.abs = base.abs /\ IsPrefix(base.comps, p.comps)

------------------------------------------------------------------------------
(* Configuration.  An environment variable is <<>> when unset, <<value>>   *)
(* when set.                                                               *)

\* os.getenv(name, default) / os.environ.get(name) with a default
getenv(var, default) == IF var = <<>> THEN default ELSE var[1]

\* python-server.py CONFIG["allowed_directories"], line 25: the raw value, or
\* the default, split on commas, nothing else
allowed_directories(raw) == Split(getenv(raw, <<"~", "/", "Desktop">>), ",")

\* python-server.py CONFIG
CONFIG ==
  [allowed_directories |-> allowed_directories(env.ALLOWED_DIRS),
   max_file_size |-> env.MAX_FILE_SIZE,
   rate_limit    |-> env.RATE_LIMIT]

\* A JSON string literal.  The literals of this model hold no escape and no comma.
json_string(s) ==
  /\ Len(s) >= 2
  /\ s[1] = "\"" /\ s[Len(s)] = "\""
  /\ \A i \in 2..(Len(s) - 1) : s[i] \notin {"\"", ","}

\* json.loads on the raw values of this model (no whitespace, numbers or
\* nesting): a string literal, an array of string literals, or an exception.
json_loads(s) ==
  IF json_string(s)
  THEN [ok |-> TRUE, list |-> FALSE, items |-> <<>>]
  ELSE IF Len(s) >= 2 /\ s[1] = "[" /\ s[Len(s)] = "]"
  THEN LET inner == SubSeq(s, 2, Len(s) - 1)
           elems == IF inner = <<>> THEN <<>> ELSE Split(inner, ",")
       IN  IF \A i \in 1..Len(elems) : json_string(elems[i])
           THEN [ok |-> TRUE, list |-> TRUE,
                 items |-> [i \in 1..Len(elems) |->
                              SubSeq(elems[i], 2, Len(elems[i]) - 1)]]
           ELSE [ok |-> FALSE, list |-> FALSE, items |-> <<>>]
  ELSE [ok |-> FALSE, list |-> FALSE, items |-> <<>>]

\* fs-sandbox helpers.parse_allowed
parse_allowed(raw) ==
  IF raw = <<>> \/ raw[1] = <<>> THEN <<>>
  ELSE LET arr == json_loads(raw[1]) IN
    IF arr.ok /\ arr.list THEN arr.items
    ELSE LET segs == Split(raw[1], ",")
             trimmed == [i \in 1..Len(segs) |-> Strip(segs[i])]
         IN  SelectSeq(trimmed, LAMBDA x : x # <<>>)

\* ffprobe-lite helpers.parse_allowed: a JSON value that is no list gives []
ffprobe_parse_allowed(raw) ==
  IF raw = <<>> \/ raw[1] = <<>> THEN <<>>
  ELSE LET Parsed(arr) ==
             IF arr.ok THEN (IF arr.list THEN arr.items ELSE <<>>)
             ELSE LET segs == Split(raw[1], ",")
                      trimmed == [i \in 1..Len(segs) |-> Strip(segs[i])]
                  IN  SelectSeq(trimmed, LAMBDA x : x # <<>>)
       IN  Parsed(json_loads(raw[1]))

\* fs-sandbox main.ALLOWED
ALLOWED == parse_allowed(env.ALLOWED_DIRS)

------------------------------------------------------------------------------
(* Path validation *)

\* python-server.py expand_path
expand_path(filepath) ==
  IF StartsWith(filepath, <<"~", "/">>)
  THEN JoinPath(Home, PurePath(SubSeq(filepath, 3, Len(filepath))))
  ELSE Path_resolve(PurePath(filepath))

\* python-server.py validate_path: the path it returns, or PermissionError.
\* base is the entry the loop returned on (the first one that matches).
validate_path(requested_path) ==
  LET resolved == expand_path(requested_path)
      dirs == CONFIG.allowed_directories
      allowed_paths == [i \in 1..Len(dirs) |-> expand_path(dirs[i])]
      hits == {i \in 1..Len(dirs) : relative_to(resolved, allowed_paths[i])}
  IN  IF hits # {}
      THEN [ok |-> TRUE, path |-> Str(resolved),
            base |-> Str(allowed_paths[CHOOSE i \in hits : \A j \in hits : i <= j]),
            error |-> "none"]
      ELSE [ok |-> FALSE, path |-> Str(resolved), base |-> <<>>,
            error |-> "PermissionError"]

\* The test of line 18 without the separator: containment by string prefix
within_prefix(abs_path, base_abs) == StartsWith(abs_path, base_abs)

\* helpers.resolve, the test of line 18
within(abs_path, base_abs) ==
  abs_path = base_abs \/ StartsWith(abs_path, base_abs \o <<"/">>)

\* fs-sandbox helpers.resolve: the string it returns, or SandboxError
resolve(allowed, requested) ==
  LET abs_path == Str(Path_resolve(expanduser(PurePath(requested))))
      base_abs == [i \in 1..Len(allowed) |->
                     Str(Path_resolve(expanduser(PurePath(allowed[i]))))]
      hits == {i \in 1..Len(allowed) : within(abs_path, base_abs[i])}
  IN  IF hits # {}
      THEN [ok |-> TRUE, path |-> abs_path,
            base |-> base_abs[CHOOSE i \in hits : \A j \in hits : i <= j],
            error |-> "none"]
      ELSE [ok |-> FALSE, path |-> abs_path, base |-> <<>>,
            error |-> "SandboxError"]

------------------------------------------------------------------------------
(* Initial state of a server process and of the filesystem *)

Clients == {"default", "other"}

\* helpers.read_capped: bytes in a megabyte
MiB == 1048576

\* A file's bytes are data followed by fill filler bytes "a" (0x61): the two
\* large files of the model are all filler.
Bytes(data, fill) == [data |-> data, fill |-> fill]
Size(c) == Len(c.data) + c.fill

P(names) == [abs |-> TRUE, comps |-> names]
Desktop == << <<"home">>, <<"Desktop">> >>
DesktopEvil == << <<"home">>, <<"Desktop", "-evil">> >>

\* The filesystem at start: the allowed directory ~/Desktop with a text
\* file, a file that is not UTF-8, a file of exactly one megabyte and one a
\* byte longer, and (Symlinks) a link to the file ~/secret outside it; beside
\* it the sibling directory ~/Desktop-evil.
InitFs ==
  [dirs  |-> { <<>>, << <<"home">> >>, Desktop, DesktopEvil },
   files |->
     (Append(Desktop, <<"a.txt">>) :> Bytes(<<104, 105>>, 0)) @@
     (Append(Desktop, <<"bin">>)   :> Bytes(<<255>>, 0)) @@
     (Append(Desktop, <<"mib">>)   :> Bytes(<<>>, MiB)) @@
     (Append(Desktop, <<"big">>)   :> Bytes(<<>>, MiB + 1)) @@
     (Append(DesktopEvil, <<"a.txt">>) :> Bytes(<<110, 111>>, 0)) @@
     (<< <<"home">>, <<"secret">> >> :> Bytes(<<112, 119>>, 0))]

NoOp == [op |-> "none"]

InitState ==
  /\ fs = InitFs
  /\ now = 0
  /\ rate_limit_window = [c \in Clients |-> <<>>]
  /\ request_count = 0
  /\ admitted = [c \in Clients |-> <<>>]
  /\ last = NoOp

------------------------------------------------------------------------------
(* Filesystem calls.  f is the filesystem, s the path string handed to the *)
(* kernel.  Each returns err = "none" or the name of the exception raised.  *)

Front(q) == SubSeq(q, 1, Len(q) - 1)

RECURSIVE OsWalk(_, _, _)
\* The kernel's path lookup: unlike realpath, every component that is walked
\* through must be an existing directory.
OsWalk(f, cur, rest) ==
  IF rest = <<>> THEN [err |-> "none", real |-> cur]
  ELSE IF cur \notin f.dirs
  THEN [err |-> IF cur \in DOMAIN f.files THEN "NotADirectoryError"
                ELSE "FileNotFoundError",
        real |-> cur]
  ELSE LET name == Head(rest) IN
    IF name = DotDot
    THEN OsWalk(f, IF cur = <<>> THEN <<>> ELSE Front(cur), Tail(rest))
    ELSE LET new == Append(cur, name) IN
      IF new \in DOMAIN Symlinks
      THEN OsWalk(f, IF Symlinks[new].abs THEN <<>> ELSE cur,
                  Symlinks[new].comps \o Tail(rest))
      ELSE OsWalk(f, new, Tail(rest))

Lookup(f, s) ==
  LET p == PurePath(s) IN OsWalk(f, <<>>, IF p.abs THEN p.comps ELSE Cwd \o p.comps)

\* Path.stat(): kind and st_size (4096 for a directory)
stat(f, s) ==
  LET w == Lookup(f, s) IN
    IF w.err # "none" THEN [err |-> w.err, kind |-> "none", size |-> 0]
    ELSE IF w.real \in f.dirs THEN [err |-> "none", kind |-> "dir", size |-> 4096]
    ELSE IF w.real \in DOMAIN f.files
    THEN [err |-> "none", kind |-> "file", size |-> Size(f.files[w.real])]
    ELSE [err |-> "FileNotFoundError", kind |-> "none", size |-> 0]

\* Path.is_dir()
is_dir(f, s) == stat(f, s).kind = "dir"

\* Path.read_bytes()
read_bytes(f, s) ==
  LET st == stat(f, s) IN
    IF st.err # "none" THEN [err |-> st.err, bytes |-> Bytes(<<>>, 0)]
    ELSE IF st.kind = "dir" THEN [err |-> "IsADirectoryError", bytes |-> Bytes(<<>>, 0)]
    ELSE [err |-> "none", bytes |-> f.files[Lookup(f, s).real]]

\* open(path, "w") and write: the file is created or replaced as a whole
write_bytes(f, s, bytes) ==
  LET w == Lookup(f, s) IN
    IF w.err # "none" THEN [err |-> w.err, fs |-> f]
    ELSE IF w.real \in f.dirs THEN [err |-> "IsADirectoryError", fs |-> f]
    ELSE IF Front(w.real) \notin f.dirs
    THEN [err |-> IF Front(w.real) \in DOMAIN f.files THEN "NotADirectoryError"
                  ELSE "FileNotFoundError",
          fs |-> f]
    ELSE [err |-> "none",
          fs |-> [f EXCEPT !.files = (w.real :> bytes) @@ f.files]]

\* os.mkdir(path)
os_mkdir(f, comps) ==
  IF comps = <<>> THEN [err |-> "FileExistsError", fs |-> f]
  ELSE LET w == OsWalk(f, <<>>, Front(comps))
           new == Append(w.real, comps[Len(comps)])
       IN
    IF w.err # "none" THEN [err |-> w.err, fs |-> f]
    ELSE IF w.real \notin f.dirs
    THEN [err |-> IF w.real \in DOMAIN f.files THEN "NotADirectoryError"
                  ELSE "FileNotFoundError",
          fs |-> f]
    ELSE IF \/ comps[Len(comps)] = DotDot
            \/ new \in f.dirs \/ new \in DOMAIN f.files \/ new \in DOMAIN Symlinks
    THEN [err |-> "FileExistsError", fs |-> f]
    ELSE [err |-> "none", fs |-> [f EXCEPT !.dirs = @ \cup {new}]]

\* Path.mkdir(parents=False, exist_ok=True)
mkdir_exist_ok(f, comps) ==
  LET r == os_mkdir(f, comps) IN
    IF r.err = "none" THEN r
    ELSE IF OsWalk(f, <<>>, comps).err = "none" /\ OsWalk(f, <<>>, comps).real \in f.dirs
    THEN [err |-> "none", fs |-> f]
    ELSE r

RECURSIVE mkdir(_, _)
\* Path.mkdir(parents=True, exist_ok=True) on an absolute path
mkdir(f, comps) ==
  LET r == os_mkdir(f, comps) IN
    IF r.err = "none" THEN r
    ELSE IF r.err = "FileNotFoundError"
    THEN IF comps = <<>> THEN r
         ELSE LET pr == mkdir(f, Front(comps)) IN
                IF pr.err # "none" THEN pr ELSE mkdir_exist_ok(pr.fs, comps)
    ELSE IF OsWalk(f, <<>>, comps).err = "none" /\ OsWalk(f, <<>>, comps).real \in f.dirs
    THEN [err |-> "none", fs |-> f]
    ELSE r

\* Path.iterdir() with item.is_dir(): the names and kinds of the children
iterdir(f, s) ==
  LET d == Lookup(f, s).real
      kids == {q \in f.dirs \cup DOMAIN f.files \cup DOMAIN Symlinks :
                 q # <<>> /\ Front(q) = d}
  IN  {[name |-> q[Len(q)],
        type |-> IF OsWalk(f, <<>>, q).err = "none" /\ OsWalk(f, <<>>, q).real \in f.dirs
                 THEN "directory" ELSE "file"] : q \in kids}

------------------------------------------------------------------------------
(* Text.  A str is [kind = "text", data, fill]: its code points, as for     *)
(* bytes.  The base64 text of some bytes is [kind = "base64", bytes]: the   *)
(* model does not spell out base64 digits.                                  *)

Text(data, fill) == [kind |-> "text", data |-> data, fill |-> fill]
Base64(bytes) == [kind |-> "base64", bytes |-> bytes]

\* The bytes of the model are ASCII or 0xFF, which no UTF-8 text holds
Utf8Valid(bytes) == \A i \in 1..Len(bytes.data) : bytes.data[i] < 128

RECURSIVE UniversalNewlines(_)
\* Text-mode reading: "\r\n" and "\r" become "\n"
UniversalNewlines(d) ==
  IF d = <<>> THEN <<>>
  ELSE IF d[1] = 13
  THEN <<10>> \o UniversalNewlines(IF Len(d) >= 2 /\ d[2] = 10
                                   THEN Tail(Tail(d)) ELSE Tail(d))
  ELSE <<d[1]>> \o UniversalNewlines(Tail(d))

\* Path.read_text(encoding="utf-8")
read_text(f, s) ==
  LET r == read_bytes(f, s) IN
    IF r.err # "none" THEN [err |-> r.err, text |-> Text(<<>>, 0)]
    ELSE IF ~Utf8Valid(r.bytes) THEN [err |-> "UnicodeDecodeError", text |-> Text(<<>>, 0)]
    ELSE [err |-> "none", text |-> Text(UniversalNewlines(r.bytes.data), r.bytes.fill)]

\* bytes.decode("utf-8", errors="replace"): U+FFFD for a byte that is not UTF-8
decode_replace(bytes) ==
  Text([i \in 1..Len(bytes.data) |->
          IF bytes.data[i] < 128 THEN bytes.data[i] ELSE 65533], bytes.fill)

\* str.encode("utf-8") of ASCII text, as Path.write_text does (on POSIX "\n"
\* is written as it is)
encode_utf8(text) == Bytes(text.data, text.fill)

\* base64.b64decode: the bytes, or binascii.Error.  A plain text of 4k+1
\* base64 digits is no base64 text; other plain texts are not decoded here.
b64decode(text) ==
  IF text.kind = "base64" THEN [err |-> "none", bytes |-> text.bytes]
  ELSE [err |-> "Error", bytes |-> Bytes(<<>>, 0)]

------------------------------------------------------------------------------
(* The example server: rate limiter and audit recorder *)

\* check_rate_limit with a window that is closed at its start: a request made
\* exactly 60 seconds ago still counts
check_rate_limit_closed(client_id) ==
  LET window_start == now - 60
      requests == SelectSeq(rate_limit_window[client_id],
                            LAMBDA t : t >= window_start)
  IN  IF Len(requests) >= CONFIG.rate_limit
      THEN [ok |-> FALSE, window |-> rate_limit_window]
      ELSE [ok |-> TRUE,
            window |-> [rate_limit_window EXCEPT ![client_id] = Append(requests, now)]]

\* check_rate_limit that stores its own timestamp only: the timestamps that
\* other invocations appended are lost
check_rate_limit_lost(client_id) ==
  LET window_start == now - 60
      requests == SelectSeq(rate_limit_window[client_id],
                            LAMBDA t : t > window_start)
  IN  IF Len(requests) >= CONFIG.rate_limit
      THEN [ok |-> FALSE, window |-> rate_limit_window]
      ELSE [ok |-> TRUE,
            window |-> [rate_limit_window EXCEPT ![client_id] = <<now>>]]

\* check_rate_limit that counts the pruned window but stores the unpruned one
check_rate_limit_unpruned(client_id) ==
  LET window_start == now - 60
      requests == SelectSeq(rate_limit_window[client_id],
                            LAMBDA t : t > window_start)
  IN  IF Len(requests) >= CONFIG.rate_limit
      THEN [ok |-> FALSE, window |-> rate_limit_window]
      ELSE [ok |-> TRUE,
            window |-> [rate_limit_window EXCEPT ![client_id] = Append(@, now)]]

\* check_rate_limit that records the attempt it rejects
check_rate_limit_recording(client_id) ==
  LET window_start == now - 60
      requests == SelectSeq(rate_limit_window[client_id],
                            LAMBDA t : t > window_start)
  IN  [ok |-> Len(requests) < CONFIG.rate_limit,
       window |-> [rate_limit_window EXCEPT ![client_id] = Append(requests, now)]]

\* python-server.py check_rate_limit: whether the call is admitted, and
\* state.rate_limit_window afterwards
check_rate_limit(client_id) ==
  LET window_start == now - 60
      requests == SelectSeq(rate_limit_window[client_id],
                            LAMBDA t : t > window_start)
  IN  IF Len(requests) >= CONFIG.rate_limit
      THEN [ok |-> FALSE, window |-> rate_limit_window]
      ELSE [ok |-> TRUE,
            window |-> [rate_limit_window EXCEPT ![client_id] = Append(requests, now)]]

\* A number for each token, for hashing
TokenCode(t) ==
  CASE t = "/" -> 47 [] t = "~" -> 126 [] t = "." -> 46 [] t = "," -> 44
    [] t = " " -> 32 [] t = "home" -> 104 [] t = "Desktop" -> 68
    [] t = "-evil" -> 45 [] t = "a.txt" -> 97 [] t = "link" -> 108
    [] t = "secret" -> 115 [] t = "bin" -> 98 [] t = "mib" -> 109
    [] t = "big" -> 103 [] t = "new" -> 110 [] t = "nope" -> 112
    [] OTHER -> 63

HexDigits ==
  <<"0", "1", "2", "3", "4", "5", "6", "7", "8", "9", "a", "b", "c", "d", "e", "f">>

RECURSIVE HashFold(_, _, _)
HashFold(s, h, m) ==
  IF s = <<>> THEN h
  ELSE HashFold(Tail(s), (h * m + TokenCode(Head(s))) % 65536, m)

\* hashlib.sha256(s.encode()).hexdigest()[:8]: eight hexadecimal digits that
\* are a function of the string.  Two 16-bit multiplicative hashes stand for
\* SHA-256.
sha256_hex8(s) ==
  LET hex(d) == HexDigits[d + 1]
      hex4(h) == <<hex(h \div 4096), hex((h \div 256) % 16),
                   hex((h \div 16) % 16), hex(h % 16)>>
  IN  hex4(HashFold(s, 7, 31)) \o hex4(HashFold(s, 11, 37))

\* The details of the entry with every supplied field kept as it is
safe_details_verbatim(details) ==
  IF details = <<>> \/ DOMAIN details[1] = {} THEN <<>> ELSE details

\* python-server.py audit_log, lines 105-113: the details of the entry.
\* details is <<>> (None) or <<d>> with d a dict; the result likewise.
safe_details(details) ==
  IF details = <<>> \/ DOMAIN details[1] = {} THEN <<>>
  ELSE LET d == details[1]
           keys == (IF "error_code" \in DOMAIN d THEN {"error_code"} ELSE {}) \cup
                   (IF "path" \in DOMAIN d THEN {"path_hash"} ELSE {})
       IN  << [k \in keys |-> IF k = "error_code" THEN d.error_code
                              ELSE sha256_hex8(d.path)] >>

\* audit_log that numbers the entry with the counter as it was before the call
audit_log_stale(n, tool, outcome, details) ==
  [timestamp      |-> now,
   tool           |-> tool,
   outcome        |-> outcome,
   duration_ms    |-> now * 1000,
   request_number |-> n,
   details        |-> safe_details(details)]

\* python-server.py audit_log: the entry printed when state.request_count
\* was n before the call
audit_log(n, tool, outcome, details) ==
  [timestamp      |-> now,
   tool           |-> tool,
   outcome        |-> outcome,
   duration_ms    |-> now * 1000,
   request_number |-> n + 1,
   details        |-> safe_details(details)]

------------------------------------------------------------------------------
(* The example server: tools.  Each returns what the try block did:        *)
(*   exc     "none", or the name of the exception that ended it            *)
(*   ops     the steps taken, in order                                     *)
(*   fs      the filesystem afterwards                                     *)
(*   audits  the audit_log calls made inside the try block                 *)
(*   text    the text returned on success                                  *)

Raise(exc, ops, f) ==
  [exc |-> exc, ops |-> ops, fs |-> f, audits |-> <<>>, text |-> <<>>]

\* A successful return that skips the audit_log call of the branch
Return_unaudited(tool, details, ops, f, text) ==
  [exc |-> "none", ops |-> ops, fs |-> f, audits |-> <<>>, text |-> text]

Return(tool, details, ops, f, text) ==
  [exc |-> "none", ops |-> Append(ops, "audit_log"), fs |-> f,
   audits |-> << [tool |-> tool, outcome |-> "success", details |-> details] >>,
   text |-> text]

Encodings == {"utf8", "base64"}

\* len(s) of a str; a base64 text has four digits for every three bytes
StrLen(text) ==
  IF text.kind = "text" THEN Len(text.data) + text.fill
  ELSE 4 * ((Size(text.bytes) + 2) \div 3)

\* pydantic: ReadFileParams(**arguments).  arguments is <<>> (None) or <<d>>
\* with d a dict.  No path of the model is longer than 4096 characters.
ReadFileParams(arguments) ==
  IF arguments = <<>> THEN [error |-> "TypeError"]
  ELSE LET d == arguments[1] IN
    IF "path" \notin DOMAIN d THEN [error |-> "ValidationError"]
    ELSE IF "encoding" \in DOMAIN d /\ d.encoding \notin Encodings
    THEN [error |-> "ValidationError"]
    ELSE [error |-> "none", path |-> d.path,
          encoding |-> IF "encoding" \in DOMAIN d THEN d.encoding ELSE "utf8"]

\* pydantic: WriteFileParams(**arguments)
WriteFileParams(arguments) ==
  IF arguments = <<>> THEN [error |-> "TypeError"]
  ELSE LET d == arguments[1] IN
    IF "path" \notin DOMAIN d \/ "content" \notin DOMAIN d
    THEN [error |-> "ValidationError"]
    ELSE IF StrLen(d.content) > 10 * 1024 * 1024
    THEN [error |-> "ValidationError"]
    ELSE IF "encoding" \in DOMAIN d /\ d.encoding \notin Encodings
    THEN [error |-> "ValidationError"]
    ELSE [error |-> "none", path |-> d.path, content |-> d.content,
          encoding |-> IF "encoding" \in DOMAIN d THEN d.encoding ELSE "utf8"]

\* pydantic: ListDirectoryParams(**arguments); other keys are ignored
ListDirectoryParams(arguments) ==
  IF arguments = <<>> THEN [error |-> "TypeError"]
  ELSE IF "path" \notin DOMAIN arguments[1] THEN [error |-> "ValidationError"]
  ELSE [error |-> "none", path |-> arguments[1].path]

\* handle_call_tool, lines 247-263.  Each local operator is the rest of the
\* branch after one statement, given the values bound so far.
read_file_sandboxed(arguments) ==
  LET Read(params, v, r) ==
        IF r.err # "none" THEN Raise(r.err, <<"validate_path", "stat", "read">>, fs)
        ELSE Return("read_file_sandboxed", << [path |-> params.path] >>,
                    <<"validate_path", "stat", "read">>, fs, r.text)
      Stat(params, v, st) ==
        IF st.err # "none" THEN Raise(st.err, <<"validate_path", "stat">>, fs)
        ELSE IF st.size > CONFIG.max_file_size
        THEN Raise("ValueError", <<"validate_path", "stat">>, fs)
        ELSE Read(params, v,
                  IF params.encoding = "utf8" THEN read_text(fs, v.path)
                  ELSE [err  |-> read_bytes(fs, v.path).err,
                        text |-> Base64(read_bytes(fs, v.path).bytes)])
      Validated(params, v) ==
        IF ~v.ok THEN Raise(v.error, <<"validate_path">>, fs)
        ELSE Stat(params, v, stat(fs, v.path))
      Parsed(params) ==
        IF params.error # "none" THEN Raise(params.error, <<>>, fs)
        ELSE Validated(params, validate_path(params.path))
  IN  Parsed(ReadFileParams(arguments))

\* handle_call_tool, lines 265-279
write_file_sandboxed(arguments) ==
  LET Written(params, w) ==
        IF w.err # "none" THEN Raise(w.err, <<"validate_path", "mkdir", "write">>, w.fs)
        ELSE Return("write_file_sandboxed", << [path |-> params.path] >>,
                    <<"validate_path", "mkdir", "write">>, w.fs,
                    <<"File written successfully">>)
      Decoded(params, v, md, dec) ==
        IF dec.err # "none" THEN Raise(dec.err, <<"validate_path", "mkdir">>, md.fs)
        ELSE Written(params, write_bytes(md.fs, v.path, dec.bytes))
      Made(params, v, md) ==
        IF md.err # "none" THEN Raise(md.err, <<"validate_path", "mkdir">>, md.fs)
        ELSE Decoded(params, v, md,
                     IF params.encoding = "utf8"
                     THEN [err |-> "none", bytes |-> encode_utf8(params.content)]
                     ELSE b64decode(params.content))
      Validated(params, v) ==
        IF ~v.ok THEN Raise(v.error, <<"validate_path">>, fs)
        ELSE Made(params, v, mkdir(fs, Front(PurePath(v.path).comps)))
      Parsed(params) ==
        IF params.error # "none" THEN Raise(params.error, <<>>, fs)
        ELSE Validated(params, validate_path(params.path))
  IN  Parsed(WriteFileParams(arguments))

\* list_directory that looks at the target before it gives up on a path
\* that failed validation
list_directory_eager(arguments) ==
  LET Validated(params, v) ==
        IF ~v.ok THEN Raise(v.error, <<"validate_path", "is_dir">>, fs)
        ELSE IF ~is_dir(fs, v.path)
        THEN Raise("ValueError", <<"validate_path", "is_dir">>, fs)
        ELSE Return("list_directory", << [path |-> params.path] >>,
                    <<"validate_path", "is_dir", "iterdir">>, fs, iterdir(fs, v.path))
      Parsed(params) ==
        IF params.error # "none" THEN Raise(params.error, <<>>, fs)
        ELSE Validated(params, validate_path(params.path))
  IN  Parsed(ListDirectoryParams(arguments))

\* handle_call_tool, lines 281-296
list_directory(arguments) ==
  LET Validated(params, v) ==
        IF ~v.ok THEN Raise(v.error, <<"validate_path">>, fs)
        ELSE IF ~is_dir(fs, v.path)
        THEN Raise("ValueError", <<"validate_path", "is_dir">>, fs)
        ELSE Return("list_directory", << [path |-> params.path] >>,
                    <<"validate_path", "is_dir", "iterdir">>, fs, iterdir(fs, v.path))
      Parsed(params) ==
        IF params.error # "none" THEN Raise(params.error, <<>>, fs)
        ELSE Validated(params, validate_path(params.path))
  IN  Parsed(ListDirectoryParams(arguments))

\* handle_call_tool, lines 206-299: the branch taken for the tool name
tool_body(name, arguments) ==
  IF name = "health_check"
  THEN Return("health_check", <<>>, <<>>, fs,
              [status |-> "ok", request_count |-> request_count])
  ELSE IF name = "capabilities"
  THEN Return("capabilities", <<>>, <<>>, fs,
              [max_file_size |-> CONFIG.max_file_size,
               rate_limit_per_minute |-> CONFIG.rate_limit,
               allowed_directories |-> CONFIG.allowed_directories])
  ELSE IF name = "read_file_sandboxed" THEN read_file_sandboxed(arguments)
  ELSE IF name = "write_file_sandboxed" THEN write_file_sandboxed(arguments)
  ELSE IF name = "list_directory" THEN list_directory(arguments)
  ELSE Raise("ValueError", <<>>, fs)

------------------------------------------------------------------------------
(* The example server: the tool handler.  It holds no await, so the event  *)
(* loop runs each invocation to its end before it starts the next one:     *)
(* concurrent invocations are handled in some order, one at a time.        *)

\* python-server.py handle_call_tool, lines 200-306: the audit entries
\* printed, given what the try block did
audit_entries(name, body) ==
  LET tried == [i \in 1..Len(body.audits) |->
                  audit_log(request_count + i - 1, body.audits[i].tool,
                            body.audits[i].outcome, body.audits[i].details)]
  IN  IF body.exc # "none"
      THEN Append(tried, audit_log(request_count + Len(body.audits), name, "error",
                                   << [error_code |-> body.exc] >>))
      ELSE tried

\* handle_call_tool that lets health_check through without asking the rate
\* limiter
handle_call_tool_exempt(name, arguments) ==
  LET Done(rl, body, entries) ==
        /\ rate_limit_window' = rl.window
        /\ admitted' = IF rl.ok
                       THEN [admitted EXCEPT !["default"] = Append(@, now)]
                       ELSE admitted
        /\ fs' = body.fs
        /\ request_count' = request_count + Len(entries)
        /\ last' = [op        |-> "call",
                    name      |-> name,
                    arguments |-> arguments,
                    admit     |-> rl.ok,
                    trace     |-> <<"check_rate_limit">> \o body.ops \o
                                  (IF body.exc # "none" THEN <<"audit_log">>
                                   ELSE <<>>) \o
                                  <<"return">>,
                    entries   |-> entries,
                    result    |-> IF body.exc # "none"
                                  THEN [kind |-> "error", error_code |-> body.exc]
                                  ELSE [kind |-> "ok", text |-> body.text]]
        /\ UNCHANGED <<env, now>>
      Tried(rl, body) == Done(rl, body, audit_entries(name, body))
      Limited(rl) ==
        Tried(rl, IF rl.ok THEN tool_body(name, arguments)
                  ELSE Raise("Exception", <<>>, fs))
  IN  Limited(IF name = "health_check"
              THEN [ok |-> TRUE, window |-> rate_limit_window]
              ELSE check_rate_limit("default"))

\* python-server.py handle_call_tool
handle_call_tool(name, arguments) ==
  LET Done(rl, body, entries) ==
        /\ rate_limit_window' = rl.window
        /\ admitted' = IF rl.ok
                       THEN [admitted EXCEPT !["default"] = Append(@, now)]
                       ELSE admitted
        /\ fs' = body.fs
        /\ request_count' = request_count + Len(entries)
        /\ last' = [op        |-> "call",
                    name      |-> name,
                    arguments |-> arguments,
                    admit     |-> rl.ok,
                    trace     |-> <<"check_rate_limit">> \o body.ops \o
                                  (IF body.exc # "none" THEN <<"audit_log">>
                                   ELSE <<>>) \o
                                  <<"return">>,
                    entries   |-> entries,
                    result    |-> IF body.exc # "none"
                                  THEN [kind |-> "error", error_code |-> body.exc]
                                  ELSE [kind |-> "ok", text |-> body.text]]
        /\ UNCHANGED <<env, now>>
      Tried(rl, body) == Done(rl, body, audit_entries(name, body))
      Limited(rl) ==
        Tried(rl, IF rl.ok THEN tool_body(name, arguments)
                  ELSE Raise("Exception", <<>>, fs))
  IN  Limited(check_rate_limit("default"))

------------------------------------------------------------------------------
(* The fs-sandbox server *)

Max(a, b) == IF a >= b THEN a ELSE b

\* read_capped that also refuses a file of exactly the ceiling
read_capped_below(f, p, max_mb) ==
  LET st == stat(f, p)
      cap == Max(1, max_mb) * 1024 * 1024
  IN  IF st.err # "none"
      THEN [err |-> st.err, ops |-> <<"stat">>, bytes |-> Bytes(<<>>, 0)]
      ELSE IF st.size >= cap
      THEN [err |-> "SandboxError", ops |-> <<"stat">>, bytes |-> Bytes(<<>>, 0)]
      ELSE [err |-> read_bytes(f, p).err, ops |-> <<"stat", "read">>,
            bytes |-> read_bytes(f, p).bytes]

\* fs-sandbox helpers.read_capped
read_capped(f, p, max_mb) ==
  LET st == stat(f, p)
      cap == Max(1, max_mb) * 1024 * 1024
  IN  IF st.err # "none"
      THEN [err |-> st.err, ops |-> <<"stat">>, bytes |-> Bytes(<<>>, 0)]
      ELSE IF st.size > cap
      THEN [err |-> "SandboxError", ops |-> <<"stat">>, bytes |-> Bytes(<<>>, 0)]
      ELSE [err |-> read_bytes(f, p).err, ops |-> <<"stat", "read">>,
            bytes |-> read_bytes(f, p).bytes]

\* fs-sandbox main.read_file: only SandboxError is caught
read_file(path) ==
  LET Done(r, rc) ==
        /\ last' =
             [op |-> "read_file", path |-> path,
              trace |-> <<"resolve">> \o (IF r.ok THEN rc.ops ELSE <<>>),
              result |->
                IF ~r.ok THEN [kind |-> "error", error |-> r.error]
                ELSE IF rc.err = "SandboxError" THEN [kind |-> "error", error |-> rc.err]
                ELSE IF rc.err # "none" THEN [kind |-> "raised", error |-> rc.err]
                ELSE [kind |-> "ok", path |-> r.path, size |-> Size(rc.bytes),
                      content |-> decode_replace(rc.bytes)]]
        /\ UNCHANGED <<env, fs, now, rate_limit_window, request_count, admitted>>
      Resolved(r) == Done(r, read_capped(fs, r.path, env.MAX_MB))
  IN  Resolved(resolve(ALLOWED, path))

------------------------------------------------------------------------------
(* Spec: both servers at work on one filesystem *)

\* Tool invocations handled by the example server in one run
MaxCalls == 2

Str_(names) == <<"/">> \o Join(names, "/")

ReqPaths ==
  { Str_(Append(Desktop, <<"a.txt">>)),
    Str_(Desktop \o << <<".">>, <<"a.txt">> >>),
    Str_(Append(Desktop, <<"mib">>)),
    Str_(Append(Desktop, <<"big">>)),
    Str_(Append(Desktop, <<"bin">>)),
    Str_(Append(Desktop, <<"nope">>)),
    Str_(Desktop),
    Str_(Append(DesktopEvil, <<"a.txt">>)),
    <<"~", "/", "Desktop", "/", ".", ".", "/", "secret">> }

WritePaths ==
  { Str_(Append(Desktop, <<"a.txt">>)),
    Str_(Desktop \o << <<"new">>, <<"a.txt">> >>),
    Str_(Append(DesktopEvil, <<"a.txt">>)),
    <<"~", "/", "Desktop", "/", ".", ".", "/", "secret">> }

Hello == Text(<<104, 101, 108, 108, 111>>, 0)

\* "a\rb": text with a carriage return
CrText == Text(<<97, 13, 98>>, 0)

\* (content, encoding): text as utf8, text that is no base64 as base64, and
\* base64 text as base64
WriteContents ==
  { [content |-> Hello, encoding |-> "utf8"],
    [content |-> CrText, encoding |-> "utf8"],
    [content |-> Hello, encoding |-> "base64"],
    [content |-> Base64(encode_utf8(Hello)), encoding |-> "base64"] }

Requests ==
  { [name |-> n, arguments |-> << >>] :
      n \in {"health_check", "capabilities", "read_file_sandboxed", "no_such_tool"} }
  \cup
  { [name |-> n, arguments |-> << [path |-> p] >>] :
      n \in {"read_file_sandboxed", "list_directory"}, p \in ReqPaths }
  \cup
  { [name |-> "read_file_sandboxed",
     arguments |-> << [path |-> p, encoding |-> e] >>] :
      p \in ReqPaths, e \in {"base64", "latin1"} }
  \cup
  { [name |-> "write_file_sandboxed", arguments |-> << [path |-> p] >>] :
      p \in WritePaths }
  \cup
  { [name |-> "write_file_sandboxed",
     arguments |-> << [path |-> p, content |-> c.content, encoding |-> c.encoding] >>] :
      p \in WritePaths, c \in WriteContents }

\* ALLOWED_DIRS names ~/Desktop; the ceilings lie at and next to the sizes
\* of the files
Envs ==
  [ALLOWED_DIRS : { << <<"~", "/", "Desktop">> >> }, MAX_FILE_SIZE : {1, 2, MiB},
   RATE_LIMIT : {1, 2}, MAX_MB : {0, 1}]

Init == env \in Envs /\ InitState

\* One tool invocation of the example server, handled to its end
CallTool ==
  /\ request_count < MaxCalls
  /\ \E r \in Requests : handle_call_tool(r.name, r.arguments)

\* One read_file invocation of the fs-sandbox server
ReadFile ==
  /\ \E p \in ReqPaths : read_file(p)

Next == CallTool \/ ReadFile

Spec == Init /\ [][Next]_vars

------------------------------------------------------------------------------
(* SpecRate: the example server over time *)

\* Largest RATE_LIMIT
MaxRateLimit == 2
\* Tool invocations handled in one run
MaxRateCalls == 4
\* The clock advances TickStep seconds at a time, MaxTicks times
MaxTicks == 3
TickStep == 30

RateRequests ==
  { [name |-> n, arguments |-> << >>] :
      n \in {"health_check", "capabilities", "no_such_tool"} }
  \cup
  { [name |-> "read_file_sandboxed",
     arguments |-> << [path |-> Str_(Append(Desktop, <<"a.txt">>))] >>] }

InitRate ==
  /\ env \in [ALLOWED_DIRS : { << <<"~", "/", "Desktop">> >> }, MAX_FILE_SIZE : {2},
              RATE_LIMIT : 0..MaxRateLimit, MAX_MB : {1}]
  /\ InitState

CallToolRate ==
  /\ request_count < MaxRateCalls
  /\ \E r \in RateRequests : handle_call_tool(r.name, r.arguments)

\* Time passes
Tick ==
  /\ now < MaxTicks * TickStep
  /\ now' = now + TickStep
  /\ UNCHANGED <<env, fs, rate_limit_window, request_count, admitted, last>>

NextRate == CallToolRate \/ Tick

SpecRate == InitRate /\ [][NextRate]_vars

------------------------------------------------------------------------------
(* SpecPure: the pure functions of the gateway applied to drawn inputs *)

\* Longest spelling of a requested path, in components
MaxDepth == 3

SpellNames ==
  { <<"home">>, <<"Desktop">>, <<"Desktop", "-evil">>, <<"a.txt">>,
    <<"link">>, <<"secret">>, DotDot, <<".">> }

SeqsUpTo(S, n) == UNION {[1..k -> S] : k \in 0..n}

\* Absolute, home-relative and working-directory-relative spellings
Spellings ==
  { pre \o Join(cs, "/") :
      pre \in { <<"/">>, <<"~", "/">>, <<>> }, cs \in SeqsUpTo(SpellNames, MaxDepth) }

\* Values of ALLOWED_DIRS: unset, empty, the default directory spelled two
\* ways, the filesystem root, and a list of two directories
AllowedDirsValues ==
  { <<>>,
    << <<>> >>,
    << <<"~", "/", "Desktop">> >>,
    << <<"/", "home", "/", "Desktop">> >>,
    << <<"/">> >>,
    << <<"/", "home", "/", "secret", ",", "/", "home", "/", "Desktop">> >> }

InitPure ==
  /\ env \in [ALLOWED_DIRS : AllowedDirsValues, MAX_FILE_SIZE : {2},
              RATE_LIMIT : {1}, MAX_MB : {1}]
  /\ InitState

\* validate_path and resolve applied to one requested path
ApplyValidate ==
  /\ last = NoOp
  /\ \E p \in Spellings :
       last' = [op |-> "validate", path |-> p,
                vp |-> validate_path(p),
                rs |-> resolve(ALLOWED, p)]
  /\ UNCHANGED <<env, fs, now, rate_limit_window, request_count, admitted>>

\* The names of the exception classes the handler reports as error_code
ErrorCodes == {"ValueError", "PermissionError", "FileNotFoundError"}

\* The dicts handed to audit_log: any of the keys error_code and path, and
\* keys that are not to be logged
DetailsMaps ==
  { <<>> } \cup
  { << [k \in keys |->
          CASE k = "error_code" -> e
            [] k = "path"       -> p
            [] k = "content"    -> Hello
            [] OTHER            -> [path |-> p, encoding |-> "utf8"]] >> :
      keys \in SUBSET {"error_code", "path", "content", "arguments"},
      p \in ReqPaths, e \in ErrorCodes }

\* audit_log applied to one details dict
ApplyAuditLog ==
  /\ last = NoOp
  /\ \E d \in DetailsMaps, o \in {"success", "error"} :
       last' = [op |-> "audit", details |-> d,
                entry |-> audit_log(request_count, "read_file_sandboxed", o, d)]
  /\ UNCHANGED <<env, fs, now, rate_limit_window, request_count, admitted>>

\* Raw values of ALLOWED_DIRS: unset, empty, a JSON array of strings, a JSON
\* string, comma-separated text with blanks and empty segments, plain text
RawValues ==
  { <<>>,
    << <<>> >>,
    << <<"[", "\"", "/", "home", "\"", ",", "\"", "~", "/", "Desktop", "\"", "]">> >>,
    << <<"[", "]">> >>,
    << <<"\"", "/", "home", "\"">> >>,
    << <<"/", "home", ",", " ", "~", "/", "Desktop", " ", ",", ",", " ">> >>,
    << <<"~", "/", "Desktop">> >>,
    << <<"/", "home", ",", "~", "/", "Desktop">> >> }

\* The three readers of ALLOWED_DIRS applied to one raw value
ApplyParse ==
  /\ last = NoOp
  /\ \E raw \in RawValues :
       last' = [op |-> "parse", raw |-> raw,
                fs_sandbox |-> parse_allowed(raw),
                ffprobe |-> ffprobe_parse_allowed(raw),
                example |-> allowed_directories(raw)]
  /\ UNCHANGED <<env, fs, now, rate_limit_window, request_count, admitted>>

NextPure == ApplyValidate \/ ApplyAuditLog \/ ApplyParse

SpecPure == InitPure /\ [][NextPure]_vars

------------------------------------------------------------------------------
(* Claims about path validation (checked under SpecPure) *)

\* The canonical form of a caller-supplied path: home shorthand expanded,
\* "." and ".." collapsed, symbolic links followed
Canonical(requested) == Path_resolve(expanduser(PurePath(requested)))

\* p is equal to b or nested under it, component by component
Contained(p, b) == IsPrefix(b.comps, p.comps)

\* The canonical AllowList entries of the example server and of fs-sandbox
PyEntries ==
  {Canonical(CONFIG.allowed_directories[i]) :
     i \in 1..Len(CONFIG.allowed_directories)}
FsEntries == {Canonical(ALLOWED[i]) : i \in 1..Len(ALLOWED)}

OutsideAll(requested, entries) ==
  \A b \in entries : ~Contained(Canonical(requested), b)
InsideSome(requested, entries) ==
  \E b \in entries : Contained(Canonical(requested), b)

\* C1: a requested path whose canonical form lies outside every AllowList
\* entry is rejected with the outside-sandbox error by validate_path and by
\* resolve, whatever its spelling ("~/", "..", a link inside an allowed
\* directory).
C1_OutsideRejected ==
  last.op = "validate" =>
    /\ OutsideAll(last.path, PyEntries) =>
         (~last.vp.ok /\ last.vp.error = "PermissionError")
    /\ OutsideAll(last.path, FsEntries) =>
         (~last.rs.ok /\ last.rs.error = "SandboxError")

\* C1, for resolve alone
C1_ResolveRejectsOutside ==
  last.op = "validate" =>
    (OutsideAll(last.path, FsEntries) =>
       (~last.rs.ok /\ last.rs.error = "SandboxError"))

\* P is B, or P begins with B immediately followed by a separator
SepAfter(path, base) == path = base \/ StartsWith(path, base \o <<"/">>)

\* As SepAfter, where an entry that itself ends in the separator (the
\* filesystem root) needs no second separator
SepBoundary(path, base) ==
  \/ SepAfter(path, base)
  \/ (base # <<>> /\ base[Len(base)] = "/" /\ StartsWith(path, base))

DesktopStr == <<"/", "home", "/", "Desktop">>

\* C2 as stated: a path is accepted on account of an entry B only if it is B
\* or begins with B immediately followed by a path separator.
C2_SeparatorAfterEntry ==
  last.op = "validate" =>
    /\ last.vp.ok => SepAfter(last.vp.path, last.vp.base)
    /\ last.rs.ok => SepAfter(last.rs.path, last.rs.base)

\* C2, amended: a path is accepted on account of an entry B only if it is B
\* or continues B across a separator boundary (the root entry ends in the
\* separator already); with the single entry /home/Desktop the sibling
\* /home/Desktop-evil/a.txt is rejected and /home/Desktop/a.txt is accepted.
C2_SeparatorBoundary ==
  last.op = "validate" =>
    /\ last.vp.ok => SepBoundary(last.vp.path, last.vp.base)
    /\ last.rs.ok => SepBoundary(last.rs.path, last.rs.base)
    /\ env.ALLOWED_DIRS = << DesktopStr >> =>
         /\ last.path = DesktopStr \o <<"-evil", "/", "a.txt">>
              => (~last.vp.ok /\ ~last.rs.ok)
         /\ last.path = DesktopStr \o <<"/", "a.txt">>
              => (last.vp.ok /\ last.rs.ok)

\* C2: /home/Desktop/a.txt was accepted on account of /home/Desktop by both
C2_AcceptedUnderEntry ==
  /\ last.op = "validate"
  /\ last.vp.ok /\ last.vp.base = DesktopStr
  /\ last.vp.path = DesktopStr \o <<"/", "a.txt">>
  /\ last.rs.ok /\ last.rs.base = DesktopStr
  /\ last.rs.path = DesktopStr \o <<"/", "a.txt">>

\* C3: a requested path whose canonical form is equal to an AllowList entry
\* or nested under one (the root included) is accepted, and the value
\* returned is its canonical absolute path.
C3_InsideAcceptedCanonical ==
  last.op = "validate" =>
    /\ InsideSome(last.path, PyEntries) =>
         (last.vp.ok /\ last.vp.path = Str(Canonical(last.path)))
    /\ InsideSome(last.path, FsEntries) =>
         (last.rs.ok /\ last.rs.path = Str(Canonical(last.path)))

\* C4: a configuration that is set and yields no directory (the empty
\* string) rejects every requested path.
C4_EmptyAllowListFailsClosed ==
  (last.op = "validate" /\ env.ALLOWED_DIRS = << <<>> >>) =>
    (~last.vp.ok /\ ~last.rs.ok)

\* The timestamps of ts that lie in the 60 seconds ending at t
Recent(ts, t) == SelectSeq(ts, LAMBDA x : x > t - 60 /\ x <= t)

\* C5: with rate_limit = N, an invocation made when N invocations of the
\* client were admitted within the trailing 60 seconds is rejected with the
\* rate-limit error, and an invocation made 60 seconds or more after the
\* client's last admitted one is admitted.
C5_RejectThenReadmit ==
  [][request_count' # request_count =>
       LET mine == admitted["default"] IN
         /\ Len(Recent(mine, now)) >= env.RATE_LIMIT =>
              /\ ~last'.admit
              /\ last'.result = [kind |-> "error", error_code |-> "Exception"]
              /\ admitted' = admitted
         /\ (mine # <<>> /\ now - mine[Len(mine)] >= 60) =>
              /\ last'.admit
              /\ admitted'["default"] = Append(mine, now)]_vars

\* C5: the client was admitted N times, rejected, and admitted again once 60
\* seconds had passed since its last admitted invocation
C5_Readmitted ==
  LET mine == admitted["default"] IN
    /\ last.op = "call" /\ last.admit
    /\ env.RATE_LIMIT >= 1
    /\ Len(mine) = env.RATE_LIMIT + 1
    /\ request_count >= env.RATE_LIMIT + 2
    /\ mine[Len(mine)] - mine[Len(mine) - 1] >= 60

\* C6: invocations are handled one at a time, in any order, so each admission
\* check sees the timestamps of the ones before it: no 60-second window holds
\* more than rate_limit admitted invocations of the client, and every admitted
\* timestamp of the trailing window is in the client's RateWindow.
C6_SerializedAdmission ==
  LET mine == admitted["default"] IN
    /\ \A i \in 1..Len(mine) : Len(Recent(mine, mine[i])) <= env.RATE_LIMIT
    /\ Recent(rate_limit_window["default"], now) = Recent(mine, now)

\* C6: two invocations were admitted at the same instant and both
\* timestamps are in the RateWindow
C6_TwoAdmittedTogether ==
  LET mine == admitted["default"] IN
    /\ Len(mine) >= 2
    /\ mine[1] = mine[2]
    /\ rate_limit_window["default"] = mine

\* The number of audit_log steps in a trace
Audits(trace) == Len(SelectSeq(trace, LAMBDA step : step = "audit_log"))

\* C7: every tool invocation prints exactly one audit entry, whatever its
\* exit path, and audit_log is the last step before the result is returned.
C7_ExactlyOneAuditLast ==
  last.op = "call" =>
    /\ Len(last.entries) = 1
    /\ Audits(last.trace) = 1
    /\ Len(last.trace) >= 2
    /\ last.trace[Len(last.trace) - 1] = "audit_log"
    /\ last.trace[Len(last.trace)] = "return"
    /\ last.entries[1].outcome =
         (IF last.result.kind = "ok" THEN "success" ELSE "error")

\* C7: an invocation ended by an error after its path was validated and
\* its target examined, and was audited
C7_ErrorExitAudited ==
  /\ last.op = "call"
  /\ last.result.kind = "error"
  /\ last.result.error_code = "ValueError"
  /\ last.trace = <<"check_rate_limit", "validate_path", "stat", "audit_log", "return">>

\* The sequences of eight hexadecimal digits
IsHex8(h) ==
  /\ Len(h) = 8
  /\ \A i \in 1..8 : \E j \in 1..16 : h[i] = HexDigits[j]

\* C8: whatever dict is handed to audit_log, the details of the entry hold
\* no key but error_code and path_hash; any other field is dropped, and a
\* path appears only as the first eight digits of its hash, never as it is.
C8_ClosedDetails ==
  last.op = "audit" =>
    IF last.details = <<>> \/ DOMAIN last.details[1] = {}
    THEN last.entry.details = <<>>
    ELSE LET given == last.details[1]
             kept == last.entry.details[1]
         IN  /\ DOMAIN kept \subseteq {"error_code", "path_hash"}
             /\ "error_code" \in DOMAIN kept <=> "error_code" \in DOMAIN given
             /\ "path_hash" \in DOMAIN kept <=> "path" \in DOMAIN given
             /\ "error_code" \in DOMAIN kept =>
                  (kept.error_code = given.error_code /\ kept.error_code \in ErrorCodes)
             /\ "path_hash" \in DOMAIN kept =>
                  /\ IsHex8(kept.path_hash)
                  /\ kept.path_hash = sha256_hex8(given.path)
                  /\ kept.path_hash # given.path

\* C8: a dict with a path, content, arguments and an error code was
\* logged as an error code and a path hash
C8_ExtraFieldsDropped ==
  /\ last.op = "audit"
  /\ last.details # <<>>
  /\ DOMAIN last.details[1] = {"error_code", "path", "content", "arguments"}
  /\ DOMAIN last.entry.details[1] = {"error_code", "path_hash"}

\* C9: every error raised inside a tool invocation is caught at the tool
\* boundary and returned as a structured error result; none leaves the
\* handler uncaught.
C9_NoErrorEscapes ==
  /\ last.op = "call" => last.result.kind \in {"ok", "error"}
  /\ last.op = "read_file" => last.result.kind \in {"ok", "error"}

\* The position of a step in a trace, 0 if it is not taken
Pos(trace, step) ==
  IF \E i \in 1..Len(trace) : trace[i] = step
  THEN CHOOSE i \in 1..Len(trace) : trace[i] = step
  ELSE 0

\* The last invocation was a read by the example server of a regular file
\* that validate_path let through: its size and whether it is UTF-8
PyRead ==
  IF /\ last.op = "call" /\ last.name = "read_file_sandboxed" /\ last.admit
     /\ ReadFileParams(last.arguments).error = "none"
     /\ validate_path(last.arguments[1].path).ok
     /\ stat(fs, validate_path(last.arguments[1].path).path).kind = "file"
  THEN [is |-> TRUE,
        size |-> stat(fs, validate_path(last.arguments[1].path).path).size,
        decodes |->
          \/ ReadFileParams(last.arguments).encoding = "base64"
          \/ Utf8Valid(read_bytes(fs, validate_path(last.arguments[1].path).path).bytes)]
  ELSE [is |-> FALSE, size |-> 0, decodes |-> FALSE]

\* The last invocation was a read by fs-sandbox of a regular file that
\* resolve let through: its size
FsRead ==
  IF /\ last.op = "read_file"
     /\ resolve(ALLOWED, last.path).ok
     /\ stat(fs, resolve(ALLOWED, last.path).path).kind = "file"
  THEN [is |-> TRUE, size |-> stat(fs, resolve(ALLOWED, last.path).path).size]
  ELSE [is |-> FALSE, size |-> 0]

\* The read of the example server against the ceiling L
PyCeiling(L, always) ==
  PyRead.is =>
    /\ Pos(last.trace, "stat") > 0
    /\ PyRead.size > L =>
         /\ last.result = [kind |-> "error", error_code |-> "ValueError"]
         /\ Pos(last.trace, "read") = 0
    /\ PyRead.size <= L =>
         /\ Pos(last.trace, "read") > Pos(last.trace, "stat")
         /\ (always \/ PyRead.decodes) => last.result.kind = "ok"

\* The read of fs-sandbox against the ceiling L
FsCeiling(L) ==
  FsRead.is =>
    /\ Pos(last.trace, "stat") > 0
    /\ FsRead.size > L =>
         /\ last.result.kind = "error" /\ last.result.error = "SandboxError"
         /\ Pos(last.trace, "read") = 0
    /\ FsRead.size <= L =>
         /\ Pos(last.trace, "read") > Pos(last.trace, "stat")
         /\ last.result.kind = "ok"

\* C10 as stated: with the configured ceiling L (MAX_FILE_SIZE bytes,
\* MAX_MB mebibytes) a read of a file of size s fails as too large without
\* reading content when s > L and succeeds when s <= L, the size being taken
\* by stat before any content is read.
C10_ConfiguredCeiling ==
  /\ PyCeiling(CONFIG.max_file_size, TRUE)
  /\ FsCeiling(env.MAX_MB * MiB)

\* C10, amended: the ceiling in force is MAX_FILE_SIZE bytes for the example
\* server and max(1, MAX_MB) mebibytes for fs-sandbox; a file larger than it
\* is refused after stat without reading content, and a file up to it is
\* read after stat, successfully unless its content does not decode as the
\* requested text encoding.
C10_EffectiveCeiling ==
  /\ PyCeiling(CONFIG.max_file_size, FALSE)
  /\ FsCeiling(Max(1, env.MAX_MB) * MiB)

\* C10: a file one byte above the ceiling was refused, and one of exactly
\* the ceiling was read
C10_RefusedJustAbove ==
  \/ /\ PyRead.is /\ PyRead.size = CONFIG.max_file_size + 1
     /\ last.result = [kind |-> "error", error_code |-> "ValueError"]
  \/ /\ FsRead.is /\ FsRead.size = Max(1, env.MAX_MB) * MiB + 1
     /\ last.result.kind = "error"

\* C11: a write invocation that ends in an error leaves the filesystem as it
\* was before the invocation: no byte written and no directory created.
C11_FailedWriteLeavesNoTrace ==
  [][(/\ request_count' # request_count
      /\ last'.op = "call"
      /\ last'.name = "write_file_sandboxed"
      /\ last'.result.kind = "error") => fs' = fs]_vars

\* The step is a read_file_sandboxed invocation as utf8 that directly follows
\* a successful write_file_sandboxed of utf8 content to the same path, the
\* content being within the read ceiling
ReadAfterWrite ==
  /\ last.op = "call" /\ last.name = "write_file_sandboxed"
  /\ last.result.kind = "ok"
  /\ WriteFileParams(last.arguments).encoding = "utf8"
  /\ request_count' # request_count
  /\ last'.op = "call" /\ last'.name = "read_file_sandboxed" /\ last'.admit
  /\ ReadFileParams(last'.arguments).error = "none"
  /\ ReadFileParams(last'.arguments).encoding = "utf8"
  /\ last'.arguments[1].path = last.arguments[1].path
  /\ StrLen(WriteFileParams(last.arguments).content) <= CONFIG.max_file_size

\* C12: a successful utf8 write of content c to a path followed by a utf8
\* read of that path returns content equal to c.
C12_WriteReadRoundTrip ==
  [][ReadAfterWrite =>
        /\ last'.result.kind = "ok"
        /\ last'.result.text = WriteFileParams(last.arguments).content]_vars

\* The contract for a raw configuration value: absent gives the empty list, a
\* serialized array of strings gives that array, anything else its
\* comma-split segments, trimmed, without the empty ones
ParseContract(raw) ==
  IF raw = <<>> THEN <<>>
  ELSE IF json_loads(raw[1]).ok /\ json_loads(raw[1]).list
  THEN json_loads(raw[1]).items
  ELSE LET segs == IF raw[1] = <<>> THEN <<>> ELSE Split(raw[1], ",")
           trimmed == [i \in 1..Len(segs) |-> Strip(segs[i])]
       IN  SelectSeq(trimmed, LAMBDA x : x # <<>>)

\* C13: every reader of the allowed-directories configuration yields the
\* empty list for absent input, the array for a serialized array of strings,
\* and the trimmed non-empty comma-split segments for every other input.
C13_ParseContract ==
  last.op = "parse" =>
    /\ last.fs_sandbox = ParseContract(last.raw)
    /\ last.ffprobe = ParseContract(last.raw)
    /\ last.example = ParseContract(last.raw)

\* C13, for parse_allowed of fs-sandbox alone
C13_FsSandboxParse ==
  last.op = "parse" => last.fs_sandbox = ParseContract(last.raw)

\* The steps that access the requested target
TargetAccess == {"stat", "read", "mkdir", "write", "is_dir", "iterdir"}

\* No step of the trace accesses the target
NoTargetAccess(trace) == \A i \in 1..Len(trace) : trace[i] \notin TargetAccess

\* Every step of kind a in the trace comes before every step of kind b
Before(trace, a, b) ==
  \A i, j \in 1..Len(trace) : (trace[i] \in a /\ trace[j] \in b) => i < j

\* C14: the stages run in the order admit, validate, size check, I/O,
\* record; admit runs exactly once, first; an invocation rejected by the rate
\* limiter or whose path fails validation accesses the target in no way and
\* goes straight to record.
C14_StageOrder ==
  last.op = "call" =>
    /\ last.trace[1] = "check_rate_limit"
    /\ Len(SelectSeq(last.trace, LAMBDA x : x = "check_rate_limit")) = 1
    /\ Before(last.trace, {"check_rate_limit"}, {"validate_path"})
    /\ Before(last.trace, {"validate_path"}, TargetAccess)
    /\ Before(last.trace, {"stat", "is_dir", "mkdir"}, {"read", "write", "iterdir"})
    /\ Before(last.trace, TargetAccess, {"audit_log"})
    /\ (\E i \in 1..Len(last.trace) : last.trace[i] \in TargetAccess) =>
         (\E i \in 1..Len(last.trace) : last.trace[i] = "validate_path")
    /\ ~last.admit =>
         last.trace = <<"check_rate_limit", "audit_log", "return">>
    /\ (last.result.kind = "error" /\ last.result.error_code = "PermissionError") =>
         last.trace = <<"check_rate_limit", "validate_path", "audit_log", "return">>
    /\ (/\ last.admit
        /\ last.name \in {"read_file_sandboxed", "write_file_sandboxed", "list_directory"}
        /\ last.arguments # <<>>
        /\ ~validate_path(last.arguments[1].path).ok) => NoTargetAccess(last.trace)

\* C14: a listing of a directory outside the sandbox was refused at
\* validation
C14_ListingRefusedAtValidation ==
  /\ last.op = "call" /\ last.name = "list_directory" /\ last.admit
  /\ last.result.kind = "error" /\ last.result.error_code = "PermissionError"
  /\ last.trace = <<"check_rate_limit", "validate_path", "audit_log", "return">>

\* C15: in every reachable state no client's RateWindow holds more
\* timestamps than the rate limit, and right after an admission the stored
\* window holds no timestamp older than the 60 seconds before it.
C15_RateWindowBounded ==
  /\ \A c \in Clients : Len(rate_limit_window[c]) <= env.RATE_LIMIT
  /\ (last.op = "call" /\ last.admit) =>
       LET stored == rate_limit_window["default"]
           at == last.entries[1].timestamp
       IN  /\ stored # <<>> /\ stored[Len(stored)] = at
           /\ \A i \in 1..Len(stored) : stored[i] > at - 60 /\ stored[i] <= at

\* C15: an admission pruned older timestamps and filled the window to the
\* limit
C15_PrunedAndFull ==
  /\ last.op = "call" /\ last.admit
  /\ Len(rate_limit_window["default"]) = env.RATE_LIMIT
  /\ Len(admitted["default"]) > Len(rate_limit_window["default"])

\* C16: an invocation that check_rate_limit rejects leaves every client's
\* stored RateWindow as it was, and is not counted as admitted.
C16_RejectionNotRecorded ==
  [][(request_count' # request_count /\ ~last'.admit) =>
       /\ rate_limit_window' = rate_limit_window
       /\ admitted' = admitted]_vars

\* C16: an invocation was rejected later than every stored timestamp and
\* the stored window does not hold its time
C16_RejectedLater ==
  /\ last.op = "call" /\ ~last.admit
  /\ env.RATE_LIMIT >= 1
  /\ rate_limit_window["default"] # <<>>
  /\ \A i \in 1..Len(rate_limit_window["default"]) :
       rate_limit_window["default"][i] < last.entries[1].timestamp

\* C17: the audit sequence number is never reset, and the entries of
\* successive invocations carry successive numbers: each entry's
\* request_number is one more than the number of entries printed before it.
C17_SequenceNumbers ==
  [][/\ request_count' >= request_count
     /\ request_count' # request_count =>
          /\ last'.op = "call"
          /\ \A i \in 1..Len(last'.entries) :
               last'.entries[i].request_number = request_count + i
          /\ request_count' = request_count + Len(last'.entries)
          /\ Len(last'.entries) >= 1]_vars

\* C17: a second invocation was audited with the number 2
C17_SecondEntry ==
  /\ last.op = "call"
  /\ request_count = 2
  /\ last.entries[Len(last.entries)].request_number = 2

\* The path_hash of the audit entry of an invocation, <<>> if it has none
PathHashOf(call) ==
  IF /\ call.op = "call"
     /\ call.entries[1].details # <<>>
     /\ "path_hash" \in DOMAIN call.entries[1].details[1]
  THEN << call.entries[1].details[1].path_hash >>
  ELSE <<>>

\* C18: two invocations that name the same canonical path through different
\* spellings are audited with the same path_hash.
C18_HashOfCanonicalPath ==
  [][(/\ request_count' # request_count
      /\ PathHashOf(last) # <<>> /\ PathHashOf(last') # <<>>
      /\ Canonical(last.arguments[1].path) = Canonical(last'.arguments[1].path))
       => PathHashOf(last') = PathHashOf(last)]_vars

\* C19: the audit entry of a failed read of a caller-supplied path holds no
\* literal path text and carries the hash prefix of the path, its only
\* path-derived content.
C19_FailedReadCarriesHash ==
  (/\ last.op = "call" /\ last.name = "read_file_sandboxed"
   /\ last.result.kind = "error"
   /\ last.arguments # <<>> /\ "path" \in DOMAIN last.arguments[1]) =>
     /\ last.entries[1].details # <<>>
     /\ DOMAIN last.entries[1].details[1] \subseteq {"error_code", "path_hash"}
     /\ "path_hash" \in DOMAIN last.entries[1].details[1]
     /\ IsHex8(last.entries[1].details[1].path_hash)
     /\ last.entries[1].details[1].path_hash # last.arguments[1].path

\* C19, the part on the literal path alone: the entry of a failed read has
\* no details but the name of the exception class
C19_FailedReadHoldsNoPath ==
  (/\ last.op = "call" /\ last.name = "read_file_sandboxed"
   /\ last.result.kind = "error") =>
     /\ DOMAIN last.entries[1] =
          {"timestamp", "tool", "outcome", "duration_ms", "request_number", "details"}
     /\ last.entries[1].tool = "read_file_sandboxed"
     /\ last.entries[1].details = << [error_code |-> last.result.error_code] >>

\* C20: every invocation, whatever the tool name, asks the rate limiter as
\* client "default": an admitted one adds its timestamp to that one window,
\* and when the window is full the invocation (health_check and capabilities
\* included) is rejected with the rate-limit error.
C20_OneSharedWindow ==
  [][request_count' # request_count =>
       LET live == SelectSeq(rate_limit_window["default"], LAMBDA t : t > now - 60) IN
         /\ last'.trace[1] = "check_rate_limit"
         /\ rate_limit_window'["other"] = rate_limit_window["other"]
         /\ last'.admit <=> Len(live) < env.RATE_LIMIT
         /\ last'.admit => rate_limit_window'["default"] = Append(live, now)
         /\ ~last'.admit =>
              last'.result = [kind |-> "error", error_code |-> "Exception"]]_vars

\* C20: health_check was rejected with the rate-limit error after other
\* invocations filled the window
C20_HealthCheckRejected ==
  /\ last.op = "call" /\ last.name = "health_check"
  /\ env.RATE_LIMIT >= 1
  /\ Len(admitted["default"]) >= env.RATE_LIMIT
  /\ last.result = [kind |-> "error", error_code |-> "Exception"]

====
